---------------------------- MODULE Spec2Model ----------------------------
(***************************************************************************)
(* Causal-influence reward of Algorithms/ppo_causal.py as a state machine. *)
(*                                                                         *)
(* Numbers.  The program computes with floats; the model computes the same *)
(* expressions in exact or fixed-point integer arithmetic:                 *)
(*   - a logit is an integer multiple of ln 2, or LowLogit, a logit so far *)
(*     below the row's maximum that exp underflows to 0.0;                 *)
(*   - a probability vector is [num, den]: entry a is num[a]/den, and      *)
(*     den = 0 is the vector 0/0 = NaN;                                    *)
(*   - np.log is LogFP, the natural logarithm in units of 1/KLScale;       *)
(*   - divergences and influence are in units of 1/KLScale nat, weights in *)
(*     units of 1/WScale, rewards in units of 1/(KLScale*WScale).          *)
(* Indices are 1-based: action a of the program is a+1 here.               *)
(***************************************************************************)
EXTENDS Integers, Sequences, FiniteSets, TLC

\* ------------------------------------------------------------------ bounds
\* size A of the action space
NumActions == 2
\* longest trajectory (B) that is generated
MaxB == 2
\* cap of steps_processed: no trajectory is started that would pass it
MaxSteps == 3
\* steps_processed of the schedule specification runs over 0..50*SchedMax+1
SchedMax == 8
\* largest agent id of the visibility-resolver specification
MaxAgentId == 3

\* ------------------------------------------------------- fixed-point units
FracBits == 6
WScale == 100

Acts == 1..NumActions

\* F applied to the values of v and w, each computed once
Bind1(v, F(_)) == CHOOSE r \in {F(x) : x \in {v}} : TRUE
Bind2(v, w, F(_, _)) == CHOOSE r \in {F(x, y) : x \in {v}, y \in {w}} : TRUE

\* a logit whose exp underflows to 0.0 next to the row's maximum
LowLogit == -1

RECURSIVE Pow2(_)
Pow2(k) == IF k <= 0 THEN 1 ELSE 2 * Pow2(k - 1)

RECURSIVE SumOver(_, _)
\* sum of f over the finite set S of its domain
SumOver(f, S) ==
    IF S = {} THEN 0
    ELSE LET x == CHOOSE y \in S : TRUE IN f[x] + SumOver(f, S \ {x})

RECURSIVE ProdOver(_, _)
ProdOver(f, S) ==
    IF S = {} THEN 1
    ELSE LET x == CHOOSE y \in S : TRUE IN f[x] * ProdOver(f, S \ {x})

SumSeq(s) == SumOver(s, DOMAIN s)

\* ------------------------------------------------------------ np.log
RECURSIVE FloorLog2(_)
FloorLog2(n) == IF n <= 1 THEN 0 ELSE 1 + FloorLog2(n \div 2)

\* 1.0 in the fixed point of the logarithm
One == Pow2(FracBits)

RECURSIVE FracLog2(_, _)
\* the fractional bits of log2 of the mantissa m (m / One in [1,2)),
\* by repeated squaring; i bits are still to come
FracLog2(m, i) ==
    IF i = 0 THEN 0
    ELSE LET sq == (m * m) \div One
         IN  IF sq >= 2 * One
             THEN Pow2(i - 1) + FracLog2(sq \div 2, i - 1)
             ELSE FracLog2(sq, i - 1)

\* log2(n) in units of 1/One, n >= 1
Log2FP(n) ==
    LET e == FloorLog2(n)
    IN  e * One + FracLog2((n * One) \div Pow2(e), FracBits)

\* one nat in the unit of the divergences
KLScale == One

\* ln(n) in units of 1/KLScale (ln 2 = 0.693), n >= 1
LogFP(n) == (Log2FP(n) * 693) \div 1000

\* one unit of reward in the fixed point of the rewards
RScale == KLScale * WScale

\* ------------------------------------------------------ scipy.special.softmax
\* exp of a logit, relative to a row maximum of at least 0
Exp(l) == IF l = LowLogit THEN 0 ELSE Pow2(l)

Softmax(row) ==
    LET e == [a \in DOMAIN row |-> Exp(row[a])]
    IN  [num |-> e, den |-> SumOver(e, DOMAIN e)]

\* p / p.sum(axis=-1, keepdims=1): entry a is (num[a]/den) / (sum num / den)
Renormalize(p) == [num |-> p.num, den |-> SumOver(p.num, DOMAIN p.num)]

IsNaNVec(p) == p.den = 0

\* exact equality of two probability vectors
SameDist(p, q) ==
    /\ IsNaNVec(p) = IsNaNVec(q)
    /\ \A a \in DOMAIN p.num : p.num[a] * q.den = q.num[a] * p.den


\* ------------------------------------------------------------ numpy shapes
Rows(x) == Len(x)
Cols(x) == Len(x[1])
\* numpy broadcasting along the second axis: a row of length 1 is repeated
Pick(row, k) == IF Len(row) = 1 THEN row[1] ELSE row[k]
Max2(x, y) == IF x >= y THEN x ELSE y
\* two second-axis lengths numpy can broadcast together
Broadcastable(c1, c2) == c1 = c2 \/ c1 = 1 \/ c2 = 1

\* ------------------------------------------------------------------ kl_div
\* one element of np.sum(np.where(p != 0, p * np.log(p / q), 0), axis=-1):
\* whether it is finite, and its value in units of 1/KLScale when it is
KLElem(p0, q0) ==
    Bind2(p0, q0, LAMBDA p, q :
    LET fin == /\ ~IsNaNVec(p)
               /\ \A a \in DOMAIN p.num :
                     p.num[a] # 0 => (~IsNaNVec(q) /\ q.num[a] # 0)
        term == [a \in DOMAIN p.num |->
                   IF p.num[a] = 0 THEN 0
                   ELSE p.num[a] * (LogFP(p.num[a]) - LogFP(p.den)
                                    - LogFP(q.num[a]) + LogFP(q.den))]
    IN  [finite |-> fin,
         val |-> IF fin THEN SumOver(term, DOMAIN term) \div p.den ELSE 0])

\* the array np.sum(...) of kl_div before the finiteness test, p and q
\* broadcast against each other along the second axis
KLRaw(p0, q0) ==
    Bind2(p0, q0, LAMBDA p, q :
       [b \in 1..Rows(p) |->
          [k \in 1..Max2(Cols(p), Cols(q)) |->
             KLElem(Pick(p[b], k), Pick(q[b], k))]])

KLAllFinite(raw) ==
    \A b \in DOMAIN raw : \A k \in DOMAIN raw[b] : raw[b][k].finite

\* kl_div's return: kl when np.all(np.isfinite(kl)), else np.zeros(kl.shape)
kl_div(p, q) ==
    Bind2(KLRaw(p, q), KLAllFinite(KLRaw(p, q)), LAMBDA raw, ok :
       [b \in DOMAIN raw |->
          [k \in DOMAIN raw[b] |-> IF ok THEN raw[b][k].val ELSE 0]])

\* --------------------------------------- compute_influence_reward, the parts
\* true_probs: the counterfactual logits under the action actually taken,
\* softmaxed and renormalised; shape [B, N, A]
TrueProbs(policy, trajectory) ==
    [b \in 1..Len(trajectory.obs) |->
       [n \in 1..policy.num_other_agents |->
          Renormalize(Softmax(
             trajectory.counterfactual_actions[b][n][trajectory.actions[b]]))]]

\* action_probs of marginalize_predictions_over_own_actions; shape [B, A]
ActionProbs(trajectory) ==
    [b \in 1..Len(trajectory.obs) |->
       Renormalize(Softmax(trajectory.action_logits[b]))]

\* np.sum(softmax(counter_probs), axis=-2) for one step and one other agent:
\* entry a is the sum over the own hypothetical action of counter_probs
SumOverOwnActions(cf) ==
    Bind1([own \in DOMAIN cf |-> Softmax(cf[own])], LAMBDA cp :
       Bind1(ProdOver([own \in DOMAIN cp |-> cp[own].den], DOMAIN cp), LAMBDA D :
          [num |-> [a \in Acts |->
                      SumOver([own \in DOMAIN cp |->
                                 cp[own].num[a] * (D \div cp[own].den)],
                              DOMAIN cp)],
           den |-> D]))

\* np.tile(action_probs, [1, N, 1]): the [B, A] array gets a new FIRST axis
\* and is repeated N times along the old first one; shape [1, N*B, A]
TiledProbs(action_probs0, N) ==
    Bind1(action_probs0, LAMBDA action_probs :
       [k \in 1..(N * Len(action_probs)) |->
          action_probs[((k - 1) % Len(action_probs)) + 1]])

\* np.multiply(marginal_probs [B, N, A], tiled_probs [1, N*B, A]) broadcasts
\* only when N = N*B or N = 1
MarginalShapeOK(policy, trajectory) ==
    Broadcastable(policy.num_other_agents,
                  policy.num_other_agents * Len(trajectory.obs))

\* np.sum(counter_probs, axis=-2); shape [B, N, A]
SummedCounterProbs(policy, trajectory) ==
    [b \in 1..Len(trajectory.obs) |->
       [n \in 1..policy.num_other_agents |->
          SumOverOwnActions(trajectory.counterfactual_actions[b][n])]]

\* np.multiply(marginal_probs, tiled_probs), renormalised along the last axis
MultiplyAndRenormalize(summed0, tiled0) ==
    Bind2(summed0, tiled0, LAMBDA summed, tiled :
       [b \in 1..Rows(summed) |->
          [k \in 1..Max2(Cols(summed), Len(tiled)) |->
             Renormalize(
                [num |-> [a \in Acts |->
                            Pick(summed[b], k).num[a] * tiled[k].num[a]],
                 den |-> Pick(summed[b], k).den * tiled[k].den])]])

\* marginalize_predictions_over_own_actions; defined when MarginalShapeOK
marginalize_predictions_over_own_actions(policy, trajectory) ==
    MultiplyAndRenormalize(
       SummedCounterProbs(policy, trajectory),
       TiledProbs(ActionProbs(trajectory), policy.num_other_agents))

\* 0.5 * (true_probs + marginal_probs), broadcast along the second axis
MeanProbs(p0, q0) ==
    Bind2(p0, q0, LAMBDA p, q :
       [b \in 1..Rows(p) |->
          [k \in 1..Max2(Cols(p), Cols(q)) |->
             LET x == Pick(p[b], k)
                 y == Pick(q[b], k)
             IN  [num |-> [a \in Acts |-> x.num[a] * y.den + y.num[a] * x.den],
                  den |-> 2 * x.den * y.den]]])

\* the branch the dispatch on influence_divergence_measure takes
FallbackDispatch(measure) == IF measure = "jsd" THEN "jsd" ELSE "kl"
DivergenceDispatch(measure) ==
    IF measure = "kl" THEN "kl"
    ELSE IF measure = "jsd" THEN "jsd"
    ELSE "exit"

\* influence_per_agent_step of the 'kl' and the 'jsd' branch
Divergence(branch, true_p, marginal_p) ==
    IF branch = "kl" THEN kl_div(true_p, marginal_p)
    ELSE Bind1(MeanProbs(true_p, marginal_p), LAMBDA mean_probs :
            Bind2(kl_div(true_p, mean_probs), kl_div(marginal_p, mean_probs),
                  LAMBDA k1, k2 :
                     [b \in DOMAIN k1 |->
                        [k \in DOMAIN k1[b] |-> (k1[b][k] + k2[b][k]) \div 2]]))

\* influence_per_agent_step *= visibility, under influence_only_when_visible
UnmaskedInfluence(policy, ips, visibility) == ips
MaskByVisibility(policy, ips, visibility) ==
    IF policy.influence_only_when_visible
    THEN [b \in DOMAIN ips |->
            [k \in DOMAIN ips[b] |-> ips[b][k] * Pick(visibility[b], k)]]
    ELSE ips

\* np.clip(x, lo, hi)
NoClip(x, lo, hi) == x
Clip(x, lo, hi) == IF x < lo THEN lo ELSE IF x > hi THEN hi ELSE x

\* influence_reward_clip, in units of 1/KLScale
ClipBound(policy) == policy.influence_reward_clip

\* np.clip(np.sum(influence_per_agent_step, axis=-1), -clip, clip)
TotalInfluence(policy, ips) ==
    [b \in DOMAIN ips |->
       Clip(SumSeq(ips[b]), -ClipBound(policy), ClipBound(policy))]

\* policy.steps_processed += len(trajectory['obs'])
StepsPlusOne(steps, B) == steps + 1
AdvanceSteps(steps, B) == steps + B

\* trajectory['rewards'] + (influence * inf_weight), elementwise
RewardsUnweighted(rewards, influence, w) ==
    [b \in DOMAIN rewards |-> rewards[b] + influence[b] * WScale]
AddInfluence(rewards, influence, w) ==
    [b \in DOMAIN rewards |-> rewards[b] + influence[b] * w]


\* ------------------------------------------------- current_influence_curriculum_weight
\* the value the method stores in curr_influence_weight, in units of 1/WScale
RampDownFirst(policy) ==
    LET s == policy.steps_processed
    IN  IF s > policy.inf_scale_start
        THEN LET diff == policy.influence_reward_weight - policy.inf_scale_final_val
                 scaled == policy.influence_reward_weight
                           - (diff * (s - policy.inf_scale_start))
                             \div (policy.inf_scale_end - policy.inf_scale_start)
             IN  Max2(policy.inf_scale_final_val, scaled)
        ELSE IF s < policy.influence_curriculum_steps
        THEN (s * policy.influence_reward_weight) \div policy.influence_curriculum_steps
        ELSE policy.influence_reward_weight
CurriculumWeight(policy) ==
    LET s == policy.steps_processed
    IN  IF s < policy.influence_curriculum_steps
        THEN (s * policy.influence_reward_weight) \div policy.influence_curriculum_steps
        ELSE IF s > policy.inf_scale_start
        THEN LET diff == policy.influence_reward_weight - policy.inf_scale_final_val
                 scaled == policy.influence_reward_weight
                           - (diff * (s - policy.inf_scale_start))
                             \div (policy.inf_scale_end - policy.inf_scale_start)
             IN  Max2(policy.inf_scale_final_val, scaled)
        ELSE policy.influence_reward_weight

\* ------------------------------------------------------------------ state
VARIABLES
    policy,                   \* the policy object: configuration, steps_processed, curr_influence_weight
    pc,                       \* where postprocess_trajectory stands
    sample_batch,             \* the trajectory being post-processed
    entry_rewards,            \* sample_batch['rewards'] as postprocess_trajectory received it
    true_probs,               \* local of compute_influence_reward
    marginal_probs,           \* local of compute_influence_reward
    influence_per_agent_step, \* local of compute_influence_reward, after masking
    inf_weight,               \* local of compute_influence_reward
    gae_input,                \* the arguments of each compute_advantages call of this trajectory
    sum_len,                  \* total length of the trajectories postprocess_trajectory has returned
    agent_ids,                \* argument of get_agent_visibility_multiplier: the own id at each step
    visibility                \* result of get_agent_visibility_multiplier

vars == <<policy, pc, sample_batch, entry_rewards, true_probs, marginal_probs,
          influence_per_agent_step, inf_weight, gae_input, sum_len, agent_ids,
          visibility>>

\* no trajectory in hand
NoBatch == [obs |-> <<>>]
NoWeight == -1

\* ------------------------------------------------------- setup_mixins
\* ConfigInitializerMixIn.__init__ and InfluenceScheduleMixIn.__init__
NewPolicy(config) ==
    [num_other_agents |-> config.num_other_agents,
     influence_divergence_measure |-> config.influence_divergence_measure,
     influence_only_when_visible |-> config.influence_only_when_visible,
     influence_reward_clip |-> config.influence_reward_clip,
     influence_reward_weight |-> config.influence_reward_weight,
     influence_curriculum_steps |-> config.influence_curriculum_steps,
     inf_scale_start |-> config.influence_scaledown_start,
     inf_scale_end |-> config.influence_scaledown_end,
     inf_scale_final_val |-> config.influence_scaledown_final_val,
     steps_processed |-> 0,
     curr_influence_weight |-> config.influence_reward_weight]

\* (influence_only_when_visible, influence_reward_clip, influence_reward_weight):
\* CONFIG's values (True, 10, 1.0), masking off, and a tight clip of half a nat
\* with a weight of 0.5
InfluenceOptions ==
    {<<TRUE, 10 * KLScale, WScale>>,
     <<FALSE, 10 * KLScale, WScale>>,
     <<TRUE, KLScale \div 2, WScale \div 2>>}

\* configurations of the trainer: CONFIG with the schedule scaled down to the
\* model's step counts, the clip bound in units of 1/KLScale, the weights in
\* units of 1/WScale
Configs ==
    {[num_other_agents |-> N,
      influence_divergence_measure |-> m,
      influence_only_when_visible |-> o[1],
      influence_reward_clip |-> o[2],
      influence_reward_weight |-> o[3],
      influence_curriculum_steps |-> 2,
      influence_scaledown_start |-> 2,
      influence_scaledown_end |-> 4,
      influence_scaledown_final_val |-> o[3] \div 2] :
        N \in {1, 2}, m \in {"kl", "jsd", "l2"}, o \in InfluenceOptions}

\* --------------------------------------------------------- trajectories
PolicyKinds == {"uniform", "unlikely", "certain", "mixed"}
CfKinds == {"ignore", "lean", "follow"}
VisKinds == {"all", "none", "alternate"}

\* the policy's logits at a step where it took action t ("mixed": certain of
\* action 1 where it took it, unlikely elsewhere)
PolicyRow(kind, t) ==
    [a \in Acts |->
       IF kind = "uniform" THEN 0
       ELSE IF kind = "unlikely" \/ (kind = "mixed" /\ t # 1)
       THEN (IF a = t THEN 0 ELSE 2)
       ELSE (IF a = t THEN 0 ELSE LowLogit)]

\* the MOA's logits for one other agent: [own hypothetical action][its action]
CfMatrix(kind) ==
    [own \in Acts |->
       [a \in Acts |->
          IF kind = "ignore" THEN 0
          ELSE IF kind = "lean" THEN (IF a = own THEN 1 ELSE 0)
          ELSE (IF a = own THEN 0 ELSE LowLogit)]]

VisEntry(kind, b, n) ==
    IF kind = "all" THEN 1
    ELSE IF kind = "none" THEN 0
    ELSE (b + n) % 2

Trajectory(B, N, pol, cfk, visk, rk, done) ==
    LET acts == [b \in 1..B |-> ((b - 1) % NumActions) + 1]
    IN  [obs |-> [b \in 1..B |-> b],
         actions |-> acts,
         rewards |-> [b \in 1..B |-> rk * b * RScale],
         dones |-> [b \in 1..B |-> done /\ b = B],
         action_logits |-> [b \in 1..B |-> PolicyRow(pol, acts[b])],
         counterfactual_actions |->
            [b \in 1..B |-> [n \in 1..N |-> CfMatrix(cfk[n])]],
         others_visibility |->
            [b \in 1..B |-> [n \in 1..N |-> VisEntry(visk, b, n)]],
         others_actions |->
            [b \in 1..B |-> [n \in 1..N |-> ((b + n) % NumActions) + 1]]]

\* ------------------------------------------------ postprocess_trajectory
\* np.hstack((own_actions, sample_batch[OTHERS_ACTIONS]))
AllActions(batch) ==
    [b \in 1..Len(batch.obs) |-> <<batch.actions[b]>> \o batch.others_actions[b]]

\* lines 165-168: a trajectory arrives and all_actions is attached
PostprocessTrajectory ==
    /\ pc = "idle"
    /\ \E B \in 1..MaxB, pol \in PolicyKinds,
          cfk \in [1..policy.num_other_agents -> CfKinds],
          visk \in VisKinds, rk \in {0, 1}, done \in BOOLEAN :
          LET batch == Trajectory(B, policy.num_other_agents, pol,
                                  cfk, visk, rk, done)
          IN  /\ policy.steps_processed + B <= MaxSteps
              /\ sample_batch' = batch @@ [all_actions |-> AllActions(batch)]
              /\ entry_rewards' = batch.rewards
    /\ pc' = "influence"
    /\ UNCHANGED <<policy, true_probs, marginal_probs, influence_per_agent_step,
                   inf_weight, gae_input, sum_len, agent_ids, visibility>>

\* line 171 when np.multiply of line 278 cannot broadcast: ValueError
ComputeInfluenceRewardShapeError ==
    /\ pc = "influence"
    /\ ~MarginalShapeOK(policy, sample_batch)
    /\ true_probs' = TrueProbs(policy, sample_batch)
    /\ pc' = "error"
    /\ UNCHANGED <<policy, sample_batch, entry_rewards, marginal_probs,
                   influence_per_agent_step, inf_weight, gae_input, sum_len,
                   agent_ids, visibility>>

\* line 171 when the measure is none of 'kl', 'jsd': sys.exit at line 218
ComputeInfluenceRewardExit ==
    /\ pc = "influence"
    /\ MarginalShapeOK(policy, sample_batch)
    /\ DivergenceDispatch(policy.influence_divergence_measure) = "exit"
    /\ true_probs' = TrueProbs(policy, sample_batch)
    /\ marginal_probs' = marginalize_predictions_over_own_actions(policy, sample_batch)
    /\ pc' = "exited"
    /\ UNCHANGED <<policy, sample_batch, entry_rewards, influence_per_agent_step,
                   inf_weight, gae_input, sum_len, agent_ids, visibility>>

\* line 171, compute_influence_reward run to its return
ComputeInfluenceReward ==
    /\ pc = "influence"
    /\ MarginalShapeOK(policy, sample_batch)
    /\ DivergenceDispatch(policy.influence_divergence_measure) # "exit"
    /\ \E tp \in {TrueProbs(policy, sample_batch)},
          mp \in {marginalize_predictions_over_own_actions(policy, sample_batch)} :
       \E div \in {Divergence(DivergenceDispatch(policy.influence_divergence_measure),
                              tp, mp)} :
       \E ips \in {MaskByVisibility(policy, div, sample_batch.others_visibility)} :
       \E influence \in {TotalInfluence(policy, ips)},
          w \in {policy.curr_influence_weight} :
           /\ true_probs' = tp
           /\ marginal_probs' = mp
           /\ influence_per_agent_step' = ips
           /\ policy' = [policy EXCEPT !.steps_processed =
                            AdvanceSteps(@, Len(sample_batch.obs))]
           /\ inf_weight' = w
           /\ sample_batch' =
                 [total_influence |-> influence,
                  reward_without_influence |-> sample_batch.rewards,
                  rewards |-> AddInfluence(sample_batch.rewards, influence, w)]
                 @@ sample_batch
    /\ pc' = "advantages"
    /\ UNCHANGED <<entry_rewards, gae_input, sum_len, agent_ids, visibility>>

\* the rewards compute_advantages reads
EntryRewards(batch) == batch.reward_without_influence
AdvantageRewards(batch) == batch.rewards

\* lines 173-189: the bootstrap value and the one compute_advantages call
ComputeAdvantages ==
    /\ pc = "advantages"
    /\ LET B == Len(sample_batch.obs)
           completed == sample_batch.dones[B]
           last_r == IF completed THEN "zero" ELSE "value_function"
       IN  gae_input' = Append(gae_input,
                               [rewards |-> AdvantageRewards(sample_batch),
                                last_r |-> last_r])
    /\ pc' = "returned"
    /\ UNCHANGED <<policy, sample_batch, entry_rewards, true_probs, marginal_probs,
                   influence_per_agent_step, inf_weight, sum_len, agent_ids, visibility>>

\* line 191: the batch is returned; the next trajectory may come
Return ==
    /\ pc = "returned"
    /\ pc' = "idle"
    /\ sum_len' = sum_len + Len(sample_batch.obs)
    /\ sample_batch' = NoBatch
    /\ entry_rewards' = <<>>
    /\ true_probs' = <<>>
    /\ marginal_probs' = <<>>
    /\ influence_per_agent_step' = <<>>
    /\ inf_weight' = NoWeight
    /\ gae_input' = <<>>
    /\ UNCHANGED <<policy, agent_ids, visibility>>

Init ==
    /\ policy \in {NewPolicy(c) : c \in Configs}
    /\ pc = "idle"
    /\ sample_batch = NoBatch
    /\ entry_rewards = <<>>
    /\ true_probs = <<>>
    /\ marginal_probs = <<>>
    /\ influence_per_agent_step = <<>>
    /\ inf_weight = NoWeight
    /\ gae_input = <<>>
    /\ sum_len = 0
    /\ agent_ids = <<>>
    /\ visibility = <<>>

Next ==
    \/ PostprocessTrajectory
    \/ ComputeInfluenceRewardShapeError
    \/ ComputeInfluenceRewardExit
    \/ ComputeInfluenceReward
    \/ ComputeAdvantages
    \/ Return

Spec == Init /\ [][Next]_vars


\* --------------------------- the curriculum schedule as a function of the step
\* (influence_reward_weight, influence_curriculum_steps, influence_scaledown_start,
\*  influence_scaledown_end, influence_scaledown_final_val): a ramp-up that ends
\* where the ramp-down starts, a gap between the two, an overlap of the two, a
\* weight of 2.0, and no ramp-up at all
ScheduleOptions ==
    {<<WScale, 100, 100, 300, WScale \div 2>>,
     <<WScale, 100, 200, 300, WScale \div 2>>,
     <<WScale, 200, 100, 300, WScale \div 2>>,
     <<2 * WScale, 100, 100, 300, WScale \div 2>>,
     <<WScale, 0, 0, 200, 0>>}

ScheduleConfigs ==
    {[num_other_agents |-> 1,
      influence_divergence_measure |-> "kl",
      influence_only_when_visible |-> TRUE,
      influence_reward_clip |-> 10 * KLScale,
      influence_reward_weight |-> o[1],
      influence_curriculum_steps |-> o[2],
      influence_scaledown_start |-> o[3],
      influence_scaledown_end |-> o[4],
      influence_scaledown_final_val |-> o[5]] : o \in ScheduleOptions}

\* the step counts the schedule is evaluated at: the multiples of 50 and their
\* neighbours
ScheduleSteps ==
    {50 * k + d : k \in 0..SchedMax, d \in {-1, 0, 1}} \ {-1}

InitSchedule ==
    /\ policy \in {[NewPolicy(c) EXCEPT !.steps_processed = 0] : c \in ScheduleConfigs}
    /\ pc = "schedule"
    /\ sample_batch = NoBatch
    /\ entry_rewards = <<>>
    /\ true_probs = <<>>
    /\ marginal_probs = <<>>
    /\ influence_per_agent_step = <<>>
    /\ inf_weight = NoWeight
    /\ gae_input = <<>>
    /\ sum_len = 0
    /\ agent_ids = <<>>
    /\ visibility = <<>>

\* InfluenceScheduleMixIn.current_influence_curriculum_weight
CurrentInfluenceCurriculumWeight ==
    /\ pc = "schedule"
    /\ policy' = [policy EXCEPT !.curr_influence_weight = CurriculumWeight(policy)]
    /\ pc' = "scheduled"
    /\ UNCHANGED <<sample_batch, entry_rewards, true_probs, marginal_probs,
                   influence_per_agent_step, inf_weight, gae_input, sum_len,
                   agent_ids, visibility>>

\* steps_processed grows by the length of the trajectories processed meanwhile
StepsProcessedGrows ==
    /\ pc \in {"schedule", "scheduled"}
    /\ \E s \in ScheduleSteps :
          /\ s > policy.steps_processed
          /\ s <= policy.steps_processed + 51
          /\ policy' = [policy EXCEPT !.steps_processed = s]
    /\ pc' = "schedule"
    /\ UNCHANGED <<sample_batch, entry_rewards, true_probs, marginal_probs,
                   influence_per_agent_step, inf_weight, gae_input, sum_len,
                   agent_ids, visibility>>

NextSchedule ==
    \/ CurrentInfluenceCurriculumWeight
    \/ StepsProcessedGrows

SpecSchedule == InitSchedule /\ [][NextSchedule]_vars

\* --------------------------------------------- get_agent_visibility_multiplier
\* the agents are 0..MaxAgentId: the acting agent and MaxAgentId others
AgentIds == 0..MaxAgentId

agent_name_to_idx(agent_num, self_id) ==
    IF agent_num > self_id THEN agent_num - 1 ELSE agent_num

\* vis_agents of step i: the slots of the listed agents (the list is modelled
\* by the set of its elements)
VisAgents(trajectory, ids, i) ==
    {agent_name_to_idx(a, ids[i]) : a \in trajectory.others_visibility[i]}

\* visibility[i, vis_agents] = 1 raises IndexError for a slot outside 0..N-1
SlotsInRange(trajectory, num_other_agents, ids) ==
    \A i \in 1..Len(trajectory.obs) :
       VisAgents(trajectory, ids, i) \subseteq 0..(num_other_agents - 1)

\* the [B, N] matrix get_agent_visibility_multiplier returns, slots 0..N-1
VisibilityMultiplier(trajectory, num_other_agents, ids) ==
    [i \in 1..Len(trajectory.obs) |->
       [j \in 0..(num_other_agents - 1) |->
          IF j \in VisAgents(trajectory, ids, i) THEN 1 ELSE 0]]

\* trajectories of one step, and of two steps whose second lists nobody or everybody
VisibilityInputs ==
    {<<ids, vis>> \in
        (UNION {[1..B -> AgentIds] : B \in 1..2})
        \X (UNION {[1..B -> SUBSET AgentIds] : B \in 1..2}) :
        /\ Len(ids) = Len(vis)
        /\ Len(vis) = 2 => vis[2] \in {{}, AgentIds}}

InitVisibility ==
    /\ policy = [num_other_agents |-> MaxAgentId]
    /\ pc = "resolve"
    /\ \E in \in VisibilityInputs :
          /\ agent_ids = in[1]
          /\ sample_batch = [obs |-> [i \in 1..Len(in[1]) |-> i],
                             others_visibility |-> in[2]]
    /\ entry_rewards = <<>>
    /\ true_probs = <<>>
    /\ marginal_probs = <<>>
    /\ influence_per_agent_step = <<>>
    /\ inf_weight = NoWeight
    /\ gae_input = <<>>
    /\ sum_len = 0
    /\ visibility = <<>>

GetAgentVisibilityMultiplier ==
    /\ pc = "resolve"
    /\ SlotsInRange(sample_batch, policy.num_other_agents, agent_ids)
    /\ visibility' = VisibilityMultiplier(sample_batch, policy.num_other_agents,
                                          agent_ids)
    /\ pc' = "resolved"
    /\ UNCHANGED <<policy, sample_batch, entry_rewards, true_probs, marginal_probs,
                   influence_per_agent_step, inf_weight, gae_input, sum_len,
                   agent_ids>>

GetAgentVisibilityMultiplierIndexError ==
    /\ pc = "resolve"
    /\ ~SlotsInRange(sample_batch, policy.num_other_agents, agent_ids)
    /\ pc' = "error"
    /\ UNCHANGED <<policy, sample_batch, entry_rewards, true_probs, marginal_probs,
                   influence_per_agent_step, inf_weight, gae_input, sum_len,
                   agent_ids, visibility>>

NextVisibility ==
    \/ GetAgentVisibilityMultiplier
    \/ GetAgentVisibilityMultiplierIndexError

SpecVisibility == InitVisibility /\ [][NextVisibility]_vars

\* ------------------------------------------------------------------ claims
Injected == pc \in {"advantages", "returned"}

\* C1: every processed trajectory's influence is multiplied by the schedule's
\* weight at the policy's steps_processed (read before or after this
\* trajectory's steps are added), never by a value left from initialisation.
C1_WeightFollowsSchedule ==
    Injected =>
       \/ inf_weight = CurriculumWeight(policy)
       \/ inf_weight = CurriculumWeight(
             [policy EXCEPT !.steps_processed = @ - Len(sample_batch.obs)])

\* C2: steps_processed starts at 0 and is the total length of the
\* trajectories processed so far: each adds its length B exactly once, in
\* compute_influence_reward, and nothing resets the counter.
C2_StepsProcessedIsSumOfLengths ==
    policy.steps_processed =
       sum_len + (IF Injected THEN Len(sample_batch.obs) ELSE 0)

C2_Witness ==
    /\ pc = "idle"
    /\ policy.steps_processed = MaxSteps
    /\ MaxSteps > MaxB

\* C3: after compute_influence_reward, reward_without_influence is the entry
\* reward, rewards = reward_without_influence + curr_influence_weight *
\* total_influence, and total_influence is the clipped sum of the per-agent
\* influence; with total_influence all zero the rewards are unchanged.
C3_RewardIsOriginalPlusWeightedInfluence ==
    Injected =>
       /\ \A b \in DOMAIN entry_rewards :
             /\ sample_batch.reward_without_influence[b] = entry_rewards[b]
             /\ sample_batch.rewards[b] =
                   sample_batch.reward_without_influence[b]
                   + policy.curr_influence_weight * sample_batch.total_influence[b]
             /\ \E sum \in {SumSeq(influence_per_agent_step[b])} :
                   sample_batch.total_influence[b] =
                      IF sum > policy.influence_reward_clip
                      THEN policy.influence_reward_clip
                      ELSE IF sum < -policy.influence_reward_clip
                      THEN -policy.influence_reward_clip
                      ELSE sum
       /\ (\A b \in DOMAIN entry_rewards : sample_batch.total_influence[b] = 0)
             => sample_batch.rewards = sample_batch.reward_without_influence

C3_Witness ==
    /\ pc = "advantages"
    /\ policy.curr_influence_weight # WScale
    /\ \E b \in DOMAIN entry_rewards :
          /\ entry_rewards[b] # 0
          /\ sample_batch.total_influence[b] # 0
          /\ sample_batch.rewards[b] # entry_rewards[b]

\* C4: compute_advantages is called once per trajectory, after
\* compute_influence_reward has returned, and the rewards it reads are the
\* entry rewards plus weight * total_influence.
C4_AdvantagesAfterInfluence ==
    /\ Len(gae_input) = (IF pc = "returned" THEN 1 ELSE 0)
    /\ pc = "returned" =>
          /\ "total_influence" \in DOMAIN sample_batch
          /\ \A b \in DOMAIN entry_rewards :
                gae_input[1].rewards[b] =
                   entry_rewards[b] + inf_weight * sample_batch.total_influence[b]

C4_Witness ==
    /\ pc = "returned"
    /\ Len(gae_input) = 1
    /\ gae_input[1].rewards # entry_rewards

MeasureRecognized == policy.influence_divergence_measure \in {"kl", "jsd"}

NoneVisible(b) ==
    \A n \in DOMAIN sample_batch.others_visibility[b] :
       sample_batch.others_visibility[b][n] = 0

\* C6: under influence_only_when_visible an other agent with visibility 0 at
\* step b contributes 0 to the influence of b, and a step whose visibility row
\* is all zero has total_influence 0 and its reward unchanged.
C6_InvisibleAgentsContributeNothing ==
    (Injected /\ policy.influence_only_when_visible) =>
       \A b \in DOMAIN entry_rewards :
          /\ \A k \in DOMAIN influence_per_agent_step[b] :
                Pick(sample_batch.others_visibility[b], k) = 0
                   => influence_per_agent_step[b][k] = 0
          /\ NoneVisible(b) =>
                /\ sample_batch.total_influence[b] = 0
                /\ sample_batch.rewards[b] = entry_rewards[b]

\* the divergences of the trajectory in hand, before masking
UnmaskedDivergence ==
    Divergence(DivergenceDispatch(policy.influence_divergence_measure),
               true_probs, marginal_probs)

C6_Witness ==
    /\ pc = "advantages"
    /\ policy.influence_only_when_visible
    /\ policy.num_other_agents = 2
    /\ \E b \in DOMAIN entry_rewards :
          /\ sample_batch.others_visibility[b][1] = 0
          /\ sample_batch.others_visibility[b][2] = 1
          /\ UnmaskedDivergence[b][1] # 0
          /\ influence_per_agent_step[b][1] = 0
          /\ influence_per_agent_step[b][2] # 0

\* C7: total_influence[b] is the per-step sum clipped to
\* [-influence_reward_clip, +influence_reward_clip], and the weight multiplies
\* the clipped value.
C7_InfluenceClippedBeforeWeighting ==
    Injected =>
       \A b \in DOMAIN entry_rewards :
          \E sum \in {SumSeq(influence_per_agent_step[b])},
             clip \in {policy.influence_reward_clip} :
             /\ sample_batch.total_influence[b] >= -clip
             /\ sample_batch.total_influence[b] <= clip
             /\ sum > clip => sample_batch.total_influence[b] = clip
             /\ sum < -clip => sample_batch.total_influence[b] = -clip
             /\ (sum >= -clip /\ sum <= clip) => sample_batch.total_influence[b] = sum
             /\ sample_batch.rewards[b] - entry_rewards[b] =
                   inf_weight * sample_batch.total_influence[b]

C7_Witness ==
    /\ pc = "advantages"
    /\ inf_weight # WScale
    /\ \E b \in DOMAIN entry_rewards :
          /\ SumSeq(influence_per_agent_step[b]) > policy.influence_reward_clip
          /\ sample_batch.total_influence[b] = policy.influence_reward_clip

\* the configuration of the schedule's worked examples
ExampleSchedule ==
    /\ policy.influence_reward_weight = WScale
    /\ policy.influence_curriculum_steps = 100
    /\ policy.inf_scale_start = 100
    /\ policy.inf_scale_end = 300
    /\ policy.inf_scale_final_val = WScale \div 2

\* C8: the weight is influence_reward_weight * s / influence_curriculum_steps
\* when s < influence_curriculum_steps; else, when s > inf_scale_start, the
\* linear decay to inf_scale_final_val at inf_scale_end, clamped there; else
\* influence_reward_weight; the ramp-up wins where both conditions hold.  The
\* quotients are the exact ones rounded down to the weight's unit.
C8_CurriculumWeightIsPiecewise ==
    pc = "scheduled" =>
       \E s \in {policy.steps_processed}, w \in {policy.curr_influence_weight},
          W \in {policy.influence_reward_weight},
          final \in {policy.inf_scale_final_val} :
          /\ s < policy.influence_curriculum_steps =>
                /\ w * policy.influence_curriculum_steps <= W * s
                /\ W * s < (w + 1) * policy.influence_curriculum_steps
          /\ (s >= policy.influence_curriculum_steps /\ s > policy.inf_scale_start) =>
                \E t \in 0..(W * SchedMax) :
                   /\ t * (policy.inf_scale_end - policy.inf_scale_start)
                         <= (W - final) * (s - policy.inf_scale_start)
                   /\ (W - final) * (s - policy.inf_scale_start)
                         < (t + 1) * (policy.inf_scale_end - policy.inf_scale_start)
                   /\ w = (IF W - t > final THEN W - t ELSE final)
          /\ (s >= policy.influence_curriculum_steps /\ s <= policy.inf_scale_start) =>
                w = W
          /\ ExampleSchedule =>
                /\ s = 0 => w = 0
                /\ s = 50 => 2 * w = WScale
                /\ s = 200 => 4 * w = 3 * WScale
                /\ s = 300 => 2 * w = WScale
                /\ s = 400 => 2 * w = WScale

C8_Witness ==
    /\ pc = "scheduled"
    /\ policy.steps_processed < policy.influence_curriculum_steps
    /\ policy.steps_processed > policy.inf_scale_start
    /\ policy.curr_influence_weight > policy.inf_scale_final_val
    /\ policy.curr_influence_weight < policy.influence_reward_weight

\* C9: slot j of step i is 1 exactly when some visible agent id other than
\* the own id maps to j under slot = id if id < self_id else id - 1; the own
\* id maps to no slot, every slot is in 0..N-1 (so the call returns), and an
\* empty list gives an all-zero row.
C9_VisibilityRowsSkipOwnId ==
    pc # "resolve" =>
       /\ pc = "resolved"
       /\ \A i \in DOMAIN agent_ids :
             /\ DOMAIN visibility[i] = 0..(policy.num_other_agents - 1)
             /\ \A j \in DOMAIN visibility[i] :
                   visibility[i][j] =
                      IF \E a \in sample_batch.others_visibility[i] \ {agent_ids[i]} :
                            (IF a < agent_ids[i] THEN a ELSE a - 1) = j
                      THEN 1 ELSE 0

\* the marginal of the claim: the counterfactual distributions averaged over
\* the own hypothetical action, weighted by action_probs
PolicyWeightedMarginal(b, n) ==
    Bind2(ActionProbs(sample_batch)[b],
          [own \in Acts |-> Softmax(sample_batch.counterfactual_actions[b][n][own])],
          LAMBDA ap, cp :
             Bind1(ProdOver([own \in Acts |-> cp[own].den], Acts), LAMBDA D :
                [num |-> [a \in Acts |->
                            SumOver([own \in Acts |->
                                       ap.num[own] * cp[own].num[a]
                                       * (D \div cp[own].den)],
                                    Acts)],
                 den |-> ap.den * D]))

\* C10: marginal[b,n,a] = sum over own_action of
\* action_probs[b,own_action] * counterfactual_probs[b,n,own_action,a],
\* and each marginal[b,n,:] sums to 1.
C10_MarginalIsPolicyWeightedAverage ==
    marginal_probs # <<>> =>
       \A b \in DOMAIN marginal_probs :
          \A n \in 1..policy.num_other_agents :
             /\ SameDist(marginal_probs[b][n], PolicyWeightedMarginal(b, n))
             /\ ~IsNaNVec(marginal_probs[b][n])

\* C11: each non-finite value of kl_div's sum is replaced by zero while every
\* finite element of the same result keeps its computed value, so that (under
\* the 'kl' measure) influence_per_agent_step is, element by element, the
\* finite divergence or 0, times the visibility where that masks.
C11_NonFiniteZeroedPerElement ==
    (Injected /\ policy.influence_divergence_measure = "kl") =>
       \E raw \in {KLRaw(true_probs, marginal_probs)} :
          \A b \in DOMAIN raw : \A k \in DOMAIN raw[b] :
             influence_per_agent_step[b][k] =
                (IF raw[b][k].finite THEN raw[b][k].val ELSE 0)
                * (IF policy.influence_only_when_visible
                   THEN Pick(sample_batch.others_visibility[b], k) ELSE 1)

=============================================================================
